---- MODULE Spec2Model ----
(***************************************************************************)
(* Model of libcloud/storage/drivers/dummy.py: DummyStorageDriver, an      *)
(* in-memory registry of containers and objects.  The state is the dict    *)
(* self._containers; every public method is one action.  `result` records *)
(* the last call (method, arguments, exception or return value); `gen`    *)
(* counts the Container instances built under each name; `lastOp`,         *)
(* `replaced` and `scenario` are history variables.                        *)
(***************************************************************************)
EXTENDS Integers, Sequences, FiniteSets, TLC

VARIABLES containers, result, gen, lastOp, replaced, scenario,
          lock, pc, pending, outcome

vars == <<containers, result, gen, lastOp, replaced, scenario,
          lock, pc, pending, outcome>>

----------------------------------------------------------------------------
(* Bounds and inputs *)

\* how many times one name may be (re)created in a behaviour
MaxGen == 2

ContainerNames == {"c1", "c2"}
ObjectNames == {"o1", "o2"}

\* DummyFileObject.__init__ defaults
DefaultYieldCount == 5
DefaultChunkLen == 10

\* the file system seen by os.path.exists / os.path.getsize
MissingPath == "/tmp/inexistent.file"
ExistingPath == "dummy.py"
ExistingFileSize == 14529
Paths == {MissingPath, ExistingPath}

----------------------------------------------------------------------------
(* Python values *)

PyNone == [type |-> "NoneType"]
EmptyItems == [k \in {} |-> PyNone]
PyDict(items) == [type |-> "dict", items |-> items]

\* truth value of a Python object used in `extra or {}`
Truthy(v) == v.type = "dict" /\ DOMAIN v.items # {}

\* dict.get(key, default)
DictGet(d, key, default) == IF key \in DOMAIN d.items THEN d.items[key] ELSE default

\* d[key] = value on a mapping
DictSet(m, key, value) == [k \in (DOMAIN m) \cup {key} |-> IF k = key THEN value ELSE m[k]]

\* del d[key] on a mapping
DictDel(m, key) == [k \in (DOMAIN m) \ {key} |-> m[k]]

Raise(exc) == [outcome |-> exc]
Return(v) == [outcome |-> "ok", value |-> v]
Raised(r) == r.outcome # "ok"

SomeMetaData == PyDict([k |-> "v"])
ExtraArgs == {PyNone, PyDict([meta_data |-> SomeMetaData])}
\* upload_object is called with its default, extra=None
FileExtraArgs == {PyNone}

\* DummyFileObject(yield_count, chunk_len)
DummyFileObject(yield_count, chunk_len) == [yield_count |-> yield_count, chunk_len |-> chunk_len]
\* __len__ that forgets the chunk length
DummyFileObject_len_chunks(f) == f.yield_count
DummyFileObject_len(f) == f.yield_count * f.chunk_len
Iterators == {DummyFileObject(DefaultYieldCount, DefaultChunkLen)}

\* Container(name, extra, driver); inc tells Container instances apart
\* (inc = 0: built by the caller, inc > 0: built by create_container)
Container(name, extra, inc) == [name |-> name, extra |-> extra, inc |-> inc]

\* the attributes of a Container value
ContainerAttributes == {"name", "extra", "driver"}

\* container.<attr>
Container_getattr(container, attr) ==
  IF attr \notin ContainerAttributes THEN Raise("AttributeError")
  ELSE IF attr = "driver" THEN Return("self")
  ELSE Return(container[attr])

\* Object(name, size, hash, extra, meta_data, container, driver)
Object(name, size, hash, extra, meta_data, container) ==
  [name |-> name, size |-> size, hash |-> hash, extra |-> extra,
   meta_data |-> meta_data, container |-> container]

\* Container values a caller passes in: for each name the instance built last
\* and the one before it (g = instances built so far under each name)
ContainerHandles(g) ==
  UNION {{Container(n, PyDict([object_count |-> 0]), i) :
            i \in {j \in 0..MaxGen : j <= g[n] /\ j + 1 >= g[n]}} : n \in ContainerNames}

\* the sizes an Object value held by a caller can carry
HandleSizes == {DefaultYieldCount * DefaultChunkLen, ExistingFileSize}

\* Object values a caller passes in; delete_object reads obj.name and
\* obj.container.name of its argument
ObjectHandles(g) ==
  {[name |-> o, size |-> z, container |-> c] :
     o \in ObjectNames, z \in HandleSizes, c \in ContainerHandles(g)}

os_path_exists(file_path) == file_path = ExistingPath
os_path_getsize(file_path) == ExistingFileSize

----------------------------------------------------------------------------
(* Methods as functions of the registry cs = self._containers *)

RECURSIVE SumSizes(_, _)
\* for _, obj in objects.iteritems(): bytes_used += obj.size
SumSizes(objects, keys) ==
  IF keys = {} THEN 0
  ELSE LET k == CHOOSE x \in keys : TRUE
       IN objects[k].size + SumSizes(objects, keys \ {k})

RECURSIVE SumLens(_, _)
\* sum([len(self._containers[container]['objects']) for container in ...])
SumLens(cs, keys) ==
  IF keys = {} THEN 0
  ELSE LET k == CHOOSE x \in keys : TRUE
       IN Cardinality(DOMAIN cs[k].objects) + SumLens(cs, keys \ {k})

RECURSIVE SumBytes(_, _)
SumBytes(cs, keys) ==
  IF keys = {} THEN 0
  ELSE LET k == CHOOSE x \in keys : TRUE
       IN SumSizes(cs[k].objects, DOMAIN cs[k].objects) + SumBytes(cs, keys \ {k})

\* get_meta_data counting containers where it should count objects
get_meta_data_shallow(cs) ==
  [container_count |-> Cardinality(DOMAIN cs),
   object_count |-> Cardinality(DOMAIN cs),
   bytes_used |-> SumBytes(cs, DOMAIN cs)]

get_meta_data(cs) ==
  [container_count |-> Cardinality(DOMAIN cs),
   object_count |-> SumLens(cs, DOMAIN cs),
   bytes_used |-> SumBytes(cs, DOMAIN cs)]

\* the orders in which a dict may enumerate its keys
KeyOrders(m) ==
  {s \in [1..Cardinality(DOMAIN m) -> DOMAIN m] : \A i, j \in DOMAIN s : i # j => s[i] # s[j]}

\* [container['container'] for container in self._containers.values()]
list_containers(cs, order) == [i \in DOMAIN order |-> cs[order[i]].container]

\* get_container that indexes the dict without the membership check
get_container_unchecked(cs, container_name) ==
  IF container_name \notin DOMAIN cs
  THEN Raise("KeyError")
  ELSE Return(cs[container_name].container)

get_container(cs, container_name) ==
  IF container_name \notin DOMAIN cs
  THEN Raise("ContainerDoesNotExistError")
  ELSE Return(cs[container_name].container)

list_container_objects(cs, container) ==
  LET c == get_container(cs, container.name)
  IN IF Raised(c) THEN c
     ELSE Container_getattr(c.value, "objects")

\* get_object that looks the object up without resolving the container first
get_object_flat(cs, container_name, object_name) ==
  IF container_name \notin DOMAIN cs \/ object_name \notin DOMAIN cs[container_name].objects
  THEN Raise("ObjectDoesNotExistError")
  ELSE Return(cs[container_name].objects[object_name])

get_object(cs, container_name, object_name) ==
  LET c == get_container(cs, container_name)
  IN IF Raised(c) THEN c
     ELSE LET container_objects == cs[container_name].objects
          IN IF object_name \notin DOMAIN container_objects
             THEN Raise("ObjectDoesNotExistError")
             ELSE Return(container_objects[object_name])

\* the methods below return [ret |-> outcome, cs |-> registry afterwards]

\* create_container without the "already registered" check
create_container_overwrites(cs, container_name, inc) ==
  LET extra == PyDict([object_count |-> 0])
      container == Container(container_name, extra, inc)
  IN [ret |-> Return(container),
      cs |-> DictSet(cs, container_name, [container |-> container, objects |-> EmptyItems])]

\* create_container that starts object_count at the number of containers
create_container_miscounts(cs, container_name, inc) ==
  IF container_name \in DOMAIN cs
  THEN [ret |-> Raise("ContainerAlreadyExistsError"), cs |-> cs]
  ELSE LET extra == PyDict([object_count |-> Cardinality(DOMAIN cs)])
           container == Container(container_name, extra, inc)
       IN [ret |-> Return(container),
           cs |-> DictSet(cs, container_name, [container |-> container, objects |-> EmptyItems])]

create_container(cs, container_name, inc) ==
  IF container_name \in DOMAIN cs
  THEN [ret |-> Raise("ContainerAlreadyExistsError"), cs |-> cs]
  ELSE LET extra == PyDict([object_count |-> 0])
           container == Container(container_name, extra, inc)
       IN [ret |-> Return(container),
           cs |-> DictSet(cs, container_name, [container |-> container, objects |-> EmptyItems])]

\* delete_container that returns True without removing the entry
delete_container_keeps(cs, container) ==
  LET container_name == container.name
  IN IF container_name \notin DOMAIN cs
     THEN [ret |-> Raise("ContainerDoesNotExistError"), cs |-> cs]
     ELSE IF Cardinality(DOMAIN cs[container_name].objects) > 0
          THEN [ret |-> Raise("ContainerIsNotEmptyError"), cs |-> cs]
          ELSE [ret |-> Return(TRUE), cs |-> cs]

\* delete_container without the "not empty" check
delete_container_cascades(cs, container) ==
  LET container_name == container.name
  IN IF container_name \notin DOMAIN cs
     THEN [ret |-> Raise("ContainerDoesNotExistError"), cs |-> cs]
     ELSE [ret |-> Return(TRUE), cs |-> DictDel(cs, container_name)]

\* delete_container that empties the whole registry
delete_container_clears(cs, container) ==
  LET container_name == container.name
  IN IF container_name \notin DOMAIN cs
     THEN [ret |-> Raise("ContainerDoesNotExistError"), cs |-> cs]
     ELSE IF Cardinality(DOMAIN cs[container_name].objects) > 0
          THEN [ret |-> Raise("ContainerIsNotEmptyError"), cs |-> cs]
          ELSE [ret |-> Return(TRUE), cs |-> EmptyItems]

\* delete_container that drops the objects before it refuses
delete_container_empties_first(cs, container) ==
  LET container_name == container.name
  IN IF container_name \notin DOMAIN cs
     THEN [ret |-> Raise("ContainerDoesNotExistError"), cs |-> cs]
     ELSE IF Cardinality(DOMAIN cs[container_name].objects) > 0
          THEN [ret |-> Raise("ContainerIsNotEmptyError"),
                cs |-> [cs EXCEPT ![container_name].objects = EmptyItems]]
          ELSE [ret |-> Return(TRUE), cs |-> DictDel(cs, container_name)]

\* delete_container that accepts only the registered Container instance
delete_container_by_identity(cs, container) ==
  LET container_name == container.name
  IN IF container_name \notin DOMAIN cs \/ cs[container_name].container # container
     THEN [ret |-> Raise("ContainerDoesNotExistError"), cs |-> cs]
     ELSE IF Cardinality(DOMAIN cs[container_name].objects) > 0
          THEN [ret |-> Raise("ContainerIsNotEmptyError"), cs |-> cs]
          ELSE [ret |-> Return(TRUE), cs |-> DictDel(cs, container_name)]

delete_container(cs, container) ==
  LET container_name == container.name
  IN IF container_name \notin DOMAIN cs
     THEN [ret |-> Raise("ContainerDoesNotExistError"), cs |-> cs]
     ELSE IF Cardinality(DOMAIN cs[container_name].objects) > 0
          THEN [ret |-> Raise("ContainerIsNotEmptyError"), cs |-> cs]
          ELSE [ret |-> Return(TRUE), cs |-> DictDel(cs, container_name)]

\* _add_object that keeps an object already stored under the name
add_object_keeps_first(cs, container, object_name, size, extra) ==
  LET c == get_container(cs, container.name)
  IN IF Raised(c) THEN [ret |-> c, cs |-> cs]
     ELSE IF object_name \in DOMAIN cs[c.value.name].objects
          THEN [ret |-> Return(cs[c.value.name].objects[object_name]), cs |-> cs]
          ELSE LET registered == c.value
                   extra1 == IF Truthy(extra) THEN extra ELSE PyDict(EmptyItems)
                   meta_data == DictGet(extra1, "meta_data", PyDict(EmptyItems))
                   obj == Object(object_name, size, PyNone, extra1, meta_data, registered)
               IN [ret |-> Return(obj),
                   cs |-> [cs EXCEPT ![registered.name].objects = DictSet(@, object_name, obj)]]

\* _add_object that stores the object in every registered container
add_object_everywhere(cs, container, object_name, size, extra) ==
  LET c == get_container(cs, container.name)
  IN IF Raised(c) THEN [ret |-> c, cs |-> cs]
     ELSE LET registered == c.value
              extra1 == IF Truthy(extra) THEN extra ELSE PyDict(EmptyItems)
              meta_data == DictGet(extra1, "meta_data", PyDict(EmptyItems))
              obj == Object(object_name, size, PyNone, extra1, meta_data, registered)
          IN [ret |-> Return(obj),
              cs |-> [n \in DOMAIN cs |->
                        [cs[n] EXCEPT !.objects = DictSet(@, object_name, obj)]]]

\* _add_object that keeps the caller's Container as the object's container
add_object_keeps_handle(cs, container, object_name, size, extra) ==
  LET c == get_container(cs, container.name)
  IN IF Raised(c) THEN [ret |-> c, cs |-> cs]
     ELSE LET extra1 == IF Truthy(extra) THEN extra ELSE PyDict(EmptyItems)
              meta_data == DictGet(extra1, "meta_data", PyDict(EmptyItems))
              obj == Object(object_name, size, PyNone, extra1, meta_data, container)
          IN [ret |-> Return(obj),
              cs |-> [cs EXCEPT ![container.name].objects = DictSet(@, object_name, obj)]]

\* _add_object that keeps extra['object_count'] of the container up to date
add_object_counts(cs, container, object_name, size, extra) ==
  LET c == get_container(cs, container.name)
  IN IF Raised(c) THEN [ret |-> c, cs |-> cs]
     ELSE LET objects == DOMAIN cs[c.value.name].objects \cup {object_name}
              registered ==
                [c.value EXCEPT !.extra = PyDict([object_count |-> Cardinality(objects)])]
              extra1 == IF Truthy(extra) THEN extra ELSE PyDict(EmptyItems)
              meta_data == DictGet(extra1, "meta_data", PyDict(EmptyItems))
              obj == Object(object_name, size, PyNone, extra1, meta_data, registered)
          IN [ret |-> Return(obj),
              cs |-> [cs EXCEPT ![registered.name] =
                        [container |-> registered,
                         objects |-> DictSet(@.objects, object_name, obj)]]]

add_object(cs, container, object_name, size, extra) ==
  LET c == get_container(cs, container.name)
  IN IF Raised(c) THEN [ret |-> c, cs |-> cs]
     ELSE LET registered == c.value
              extra1 == IF Truthy(extra) THEN extra ELSE PyDict(EmptyItems)
              meta_data == DictGet(extra1, "meta_data", PyDict(EmptyItems))
              obj == Object(object_name, size, PyNone, extra1, meta_data, registered)
          IN [ret |-> Return(obj),
              cs |-> [cs EXCEPT ![registered.name].objects = DictSet(@, object_name, obj)]]

\* upload_object that resolves the container before it looks at the path
upload_object_resolves_first(cs, file_path, container, object_name, extra) ==
  IF Raised(get_container(cs, container.name))
  THEN [ret |-> get_container(cs, container.name), cs |-> cs]
  ELSE IF ~os_path_exists(file_path)
       THEN [ret |-> Raise("LibcloudError"), cs |-> cs]
       ELSE add_object(cs, container, object_name, os_path_getsize(file_path), extra)

upload_object(cs, file_path, container, object_name, extra) ==
  IF ~os_path_exists(file_path)
  THEN [ret |-> Raise("LibcloudError"), cs |-> cs]
  ELSE LET size == os_path_getsize(file_path)
       IN add_object(cs, container, object_name, size, extra)

upload_object_via_stream(cs, iterator, container, object_name, extra) ==
  LET size == DummyFileObject_len(iterator)
  IN add_object(cs, container, object_name, size, extra)

\* delete_object that empties the object's container
delete_object_clears(cs, obj) ==
  LET container_name == obj.container.name
      object_name == obj.name
      found == get_object(cs, container_name, object_name)
  IN IF Raised(found) THEN [ret |-> found, cs |-> cs]
     ELSE [ret |-> Return(TRUE), cs |-> [cs EXCEPT ![container_name].objects = EmptyItems]]

\* delete_object that returns True without removing the entry
delete_object_keeps(cs, obj) ==
  LET container_name == obj.container.name
      object_name == obj.name
      found == get_object(cs, container_name, object_name)
  IN IF Raised(found) THEN [ret |-> found, cs |-> cs]
     ELSE [ret |-> Return(TRUE), cs |-> cs]

delete_object(cs, obj) ==
  LET container_name == obj.container.name
      object_name == obj.name
      found == get_object(cs, container_name, object_name)
  IN IF Raised(found) THEN [ret |-> found, cs |-> cs]
     ELSE [ret |-> Return(TRUE),
           cs |-> [cs EXCEPT ![container_name].objects = DictDel(@, object_name)]]

----------------------------------------------------------------------------
(* The state machine *)

NoArgs == [k \in {} |-> PyNone]
Call(op, args, ret) == [op |-> op, args |-> args, ret |-> ret]
Succeeded(call) == call.ret.outcome = "ok"

\* the calls of the scenario "create c1, upload o1 (50 bytes), delete c1,
\* delete o1, delete c1", in order
ScenarioCall(k, call) ==
  \/ k = 1 /\ call.op = "create_container" /\ call.args.container_name = "c1"
  \/ k = 2 /\ call.op = "upload_object_via_stream" /\ call.args.container.name = "c1"
           /\ call.args.object_name = "o1"
           /\ call.args.iterator = DummyFileObject(DefaultYieldCount, DefaultChunkLen)
  \/ k = 3 /\ call.op = "delete_container" /\ call.args.container.name = "c1"
  \/ k = 4 /\ call.op = "delete_object" /\ call.args.obj.name = "o1"
           /\ call.args.obj.container.name = "c1"
  \/ k = 5 /\ call.op = "delete_container" /\ call.args.container.name = "c1"

\* Callers of a concurrent host, and the calls they make on one driver: all
\* address the same container name and object name.
Threads == {"t1", "t2", "t3"}
SharedContainer == "c1"
SharedObject == "o1"
ConcurrentOps == {"create_container", "delete_container", "upload_object_via_stream",
                  "delete_object", "get_meta_data"}
NoOutcome == [outcome |-> "none"]

\* call is op on SharedContainer / SharedObject
IsShared(call, op) ==
  /\ call.op = op
  /\ \/ op = "get_meta_data"
     \/ op = "create_container" /\ call.args.container_name = SharedContainer
     \/ op = "delete_container" /\ call.args.container.name = SharedContainer
     \/ op = "upload_object_via_stream" /\ call.args.container.name = SharedContainer
          /\ call.args.object_name = SharedObject
     \/ op = "delete_object" /\ call.args.obj.container.name = SharedContainer
          /\ call.args.obj.name = SharedObject

ReadOnly(call) ==
  call.op \in {"get_meta_data", "list_containers", "list_container_objects",
               "get_container", "get_object"}
Uploads == {"upload_object", "upload_object_via_stream"}

\* History variables, as functions of the call just made (result'):
\*   lastOp[n]  the last successful container operation on name n
\*   replaced   the call was an upload under an object name already present
\*   scenario   k while the calls so far are the first k scenario calls
\*              (queries aside), -1 otherwise
\*   outcome[t] what the call of thread t returned; the thread that holds the
\*              lock is the one whose call this is
History ==
  LET call == result'
  IN /\ lastOp' = IF ~Succeeded(call) THEN lastOp
                  ELSE IF call.op = "create_container"
                       THEN [lastOp EXCEPT ![call.args.container_name] = "create"]
                  ELSE IF call.op = "delete_container"
                       THEN [lastOp EXCEPT ![call.args.container.name] = "delete"]
                  ELSE lastOp
     /\ replaced' = /\ call.op \in Uploads
                    /\ Succeeded(call)
                    /\ call.args.object_name \in DOMAIN containers[call.args.container.name].objects
     /\ scenario' = IF ReadOnly(call) THEN scenario
                    ELSE IF scenario \in 0..4 /\ ScenarioCall(scenario + 1, call)
                         THEN scenario + 1
                    ELSE -1
     /\ outcome' = IF lock \in Threads THEN [outcome EXCEPT ![lock] = call.ret] ELSE outcome
     /\ pc' = IF lock \in Threads THEN [pc EXCEPT ![lock] = "ran"] ELSE pc
     /\ UNCHANGED <<lock, pending>>

TypeOK ==
  /\ DOMAIN containers \subseteq ContainerNames
  /\ \A n \in DOMAIN containers : DOMAIN containers[n].objects \subseteq ObjectNames
  /\ gen \in [ContainerNames -> 0..MaxGen]
  /\ lastOp \in [ContainerNames -> {"none", "create", "delete"}]
  /\ replaced \in BOOLEAN
  /\ scenario \in -1..5
  /\ lock \in Threads \cup {"free"}
  /\ pc \in [Threads -> {"idle", "waiting", "holding", "ran", "done"}]
  /\ pending \in [Threads -> ConcurrentOps \cup {"none"}]

\* DummyStorageDriver.__init__
Init ==
  /\ containers = EmptyItems
  /\ result = Call("__init__", NoArgs, Return(PyNone))
  /\ gen = [n \in ContainerNames |-> 0]
  /\ lastOp = [n \in ContainerNames |-> "none"]
  /\ replaced = FALSE
  /\ scenario = 0
  /\ lock = "free"
  /\ pc = [t \in Threads |-> "idle"]
  /\ pending = [t \in Threads |-> "none"]
  /\ outcome = [t \in Threads |-> NoOutcome]

GetMetaData ==
  /\ result' = Call("get_meta_data", NoArgs, Return(get_meta_data(containers)))
  /\ UNCHANGED <<containers, gen>>
  /\ History

ListContainers ==
  \E order \in KeyOrders(containers) :
    /\ result' = Call("list_containers", NoArgs, Return(list_containers(containers, order)))
    /\ UNCHANGED <<containers, gen>>
    /\ History

ListContainerObjects ==
  \E container \in ContainerHandles(gen) :
    /\ result' = Call("list_container_objects", [container |-> container],
                      list_container_objects(containers, container))
    /\ UNCHANGED <<containers, gen>>
    /\ History

GetContainer ==
  \E container_name \in ContainerNames :
    /\ result' = Call("get_container", [container_name |-> container_name],
                      get_container(containers, container_name))
    /\ UNCHANGED <<containers, gen>>
    /\ History

GetObject ==
  \E container_name \in ContainerNames, object_name \in ObjectNames :
    /\ result' = Call("get_object",
                      [container_name |-> container_name, object_name |-> object_name],
                      get_object(containers, container_name, object_name))
    /\ UNCHANGED <<containers, gen>>
    /\ History

CreateContainer ==
  \E container_name \in ContainerNames :
    /\ container_name \in DOMAIN containers \/ gen[container_name] < MaxGen
    /\ LET r == create_container(containers, container_name, gen[container_name] + 1)
       IN /\ containers' = r.cs
          /\ result' = Call("create_container", [container_name |-> container_name], r.ret)
          /\ gen' = IF Raised(r.ret) THEN gen ELSE [gen EXCEPT ![container_name] = @ + 1]
    /\ History

DeleteContainer ==
  \E container \in ContainerHandles(gen) :
    /\ LET r == delete_container(containers, container)
       IN /\ containers' = r.cs
          /\ result' = Call("delete_container", [container |-> container], r.ret)
    /\ UNCHANGED gen
    /\ History

UploadObject ==
  \E file_path \in Paths, container \in ContainerHandles(gen),
     object_name \in ObjectNames, extra \in FileExtraArgs :
    /\ LET r == upload_object(containers, file_path, container, object_name, extra)
       IN /\ containers' = r.cs
          /\ result' = Call("upload_object",
                            [file_path |-> file_path, container |-> container,
                             object_name |-> object_name, extra |-> extra], r.ret)
    /\ UNCHANGED gen
    /\ History

UploadObjectViaStream ==
  \E iterator \in Iterators, container \in ContainerHandles(gen),
     object_name \in ObjectNames, extra \in ExtraArgs :
    /\ LET r == upload_object_via_stream(containers, iterator, container, object_name, extra)
       IN /\ containers' = r.cs
          /\ result' = Call("upload_object_via_stream",
                            [iterator |-> iterator, container |-> container,
                             object_name |-> object_name, extra |-> extra], r.ret)
    /\ UNCHANGED gen
    /\ History

DeleteObject ==
  \E obj \in ObjectHandles(gen) :
    /\ LET r == delete_object(containers, obj)
       IN /\ containers' = r.cs
          /\ result' = Call("delete_object", [obj |-> obj], r.ret)
    /\ UNCHANGED gen
    /\ History

Next ==
  \/ GetMetaData
  \/ ListContainers
  \/ ListContainerObjects
  \/ GetContainer
  \/ GetObject
  \/ CreateContainer
  \/ DeleteContainer
  \/ UploadObject
  \/ UploadObjectViaStream
  \/ DeleteObject

Spec == Init /\ [][Next]_vars

driver == <<containers, result, gen, lastOp, replaced, scenario>>

\* A host that runs the driver's calls from several threads, every call under
\* one exclusive lock. Thread t makes one call: it is invoked, waits for the
\* lock, runs the call while holding it, releases the lock. No thread gets the
\* lock before every thread's call is invoked, so the calls are concurrent.
Invoke(t) ==
  \E op \in ConcurrentOps :
    /\ pc[t] = "idle"
    /\ pc' = [pc EXCEPT ![t] = "waiting"]
    /\ pending' = [pending EXCEPT ![t] = op]
    /\ UNCHANGED <<driver, lock, outcome>>

Acquire(t) ==
  /\ pc[t] = "waiting"
  /\ \A u \in Threads : pc[u] # "idle"
  /\ lock = "free"
  /\ lock' = t
  /\ pc' = [pc EXCEPT ![t] = "holding"]
  /\ UNCHANGED <<driver, pending, outcome>>

\* the pending call of t, as one step of the driver
Run(t) ==
  /\ lock = t
  /\ pc[t] = "holding"
  /\ Next
  /\ IsShared(result', pending[t])

Release(t) ==
  /\ lock = t
  /\ pc[t] = "ran"
  /\ lock' = "free"
  /\ pc' = [pc EXCEPT ![t] = "done"]
  /\ UNCHANGED <<driver, pending, outcome>>

NextLocked ==
  \E t \in Threads :
    \/ Invoke(t)
    \/ Acquire(t)
    \/ Run(t)
    \/ Release(t)

SpecLocked == Init /\ [][NextLocked]_vars

----------------------------------------------------------------------------
(* Properties *)

\* the registry by direct enumeration
AllObjects(cs) ==
  {p \in ContainerNames \X ObjectNames : p[1] \in DOMAIN cs /\ p[2] \in DOMAIN cs[p[1]].objects}

RECURSIVE TotalSize(_, _)
TotalSize(cs, pairs) ==
  IF pairs = {} THEN 0
  ELSE LET p == CHOOSE x \in pairs : TRUE
       IN cs[p[1]].objects[p[2]].size + TotalSize(cs, pairs \ {p})

ObjectCount(cs) == Cardinality(AllObjects(cs))
BytesUsed(cs) == TotalSize(cs, AllObjects(cs))

\* C1: whatever calls were made before (successful or failing), the names
\* list_containers() returns are exactly the names whose last successful
\* container operation was a create, and no name is listed twice.
C1_ListedAreCreatedNotDeleted ==
  result.op = "list_containers" =>
    LET listed == result.ret.value
    IN /\ {listed[i].name : i \in DOMAIN listed} = {n \in ContainerNames : lastOp[n] = "create"}
       /\ \A i, j \in DOMAIN listed : i # j => listed[i].name # listed[j].name

\* a listing of one container, made after the other one was created and deleted
C1_Witness ==
  /\ result.op = "list_containers"
  /\ Len(result.ret.value) = 1
  /\ \E n \in ContainerNames : lastOp[n] = "delete"

\* C2: create_container with a registered name raises
\* ContainerAlreadyExistsError and leaves the registry as it was: same
\* container, same objects, one container of that name.
C2_CreateExistingFails ==
  [][(result'.op = "create_container" /\ result'.args.container_name \in DOMAIN containers)
       => LET n == result'.args.container_name
          IN /\ result'.ret.outcome = "ContainerAlreadyExistsError"
             /\ containers' = containers
             /\ \A order \in KeyOrders(containers') :
                   Cardinality({i \in DOMAIN order :
                                  list_containers(containers', order)[i].name = n}) = 1]_vars

\* a refused create of a container that holds two objects, which are still there
C2_Witness ==
  /\ result.op = "create_container"
  /\ result.ret.outcome = "ContainerAlreadyExistsError"
  /\ result.args.container_name \in DOMAIN containers
  /\ DOMAIN containers[result.args.container_name].objects = ObjectNames

\* C3: delete_container on a registered container holding an object raises
\* ContainerIsNotEmptyError and leaves the registry as it was.
C3_DeleteNonEmptyFails ==
  [][(/\ result'.op = "delete_container"
      /\ result'.args.container.name \in DOMAIN containers
      /\ DOMAIN containers[result'.args.container.name].objects # {})
       => /\ result'.ret.outcome = "ContainerIsNotEmptyError"
          /\ containers' = containers]_vars

\* a refused delete of a container that holds two objects, which are still there
C3_Witness ==
  /\ result.op = "delete_container"
  /\ result.ret.outcome = "ContainerIsNotEmptyError"
  /\ result.args.container.name \in DOMAIN containers
  /\ DOMAIN containers[result.args.container.name].objects = ObjectNames

\* C4: delete_container on a registered container holding no object returns
\* True, removes that entry and leaves every other entry as it was.
C4_DeleteEmptySucceeds ==
  [][(/\ result'.op = "delete_container"
      /\ result'.args.container.name \in DOMAIN containers
      /\ DOMAIN containers[result'.args.container.name].objects = {})
       => /\ result'.ret = Return(TRUE)
          /\ DOMAIN containers' = DOMAIN containers \ {result'.args.container.name}
          /\ \A m \in DOMAIN containers' : containers'[m] = containers[m]]_vars

\* a successful delete that left the other container and its object in place
C4_Witness ==
  /\ result.op = "delete_container"
  /\ Succeeded(result)
  /\ result.args.container.name \notin DOMAIN containers
  /\ \E m \in DOMAIN containers : DOMAIN containers[m].objects # {}

C5_MetaDataMatches ==
  result.op = "get_meta_data" =>
    /\ result.ret.outcome = "ok"
    /\ result.ret.value.container_count = Cardinality(DOMAIN containers)
    /\ result.ret.value.object_count = ObjectCount(containers)
    /\ result.ret.value.bytes_used = BytesUsed(containers)
    /\ containers = EmptyItems =>
         result.ret.value = [container_count |-> 0, object_count |-> 0, bytes_used |-> 0]

\* C5: get_meta_data() returns the number of containers, the number of
\* objects over all containers and the sum of all object sizes (0, 0, 0 for
\* the empty registry), and changes nothing in the registry.
C5_MetaDataConsistent ==
  /\ []C5_MetaDataMatches
  /\ [][result'.op = "get_meta_data" => containers' = containers]_vars

\* get_meta_data over two containers holding three objects of different sizes
C5_Witness ==
  /\ result.op = "get_meta_data"
  /\ result.ret.value =
       [container_count |-> 2, object_count |-> 3,
        bytes_used |-> DefaultYieldCount * DefaultChunkLen + 2 * ExistingFileSize]

\* the size an upload call declares: the file's length or the iterator's length
UploadSize(call) ==
  IF call.op = "upload_object" THEN os_path_getsize(call.args.file_path)
  ELSE DummyFileObject_len(call.args.iterator)

\* the meta data an upload call carries: extra['meta_data'] if given, else {}
UploadMetaData(call) ==
  IF call.args.extra.type = "dict" /\ "meta_data" \in DOMAIN call.args.extra.items
  THEN call.args.extra.items.meta_data
  ELSE PyDict(EmptyItems)

\* an upload call that gets as far as _add_object
ReachesAddObject(call) ==
  /\ call.op \in Uploads
  /\ call.op = "upload_object" => os_path_exists(call.args.file_path)

\* C6: an upload (from a stream or from an existing file) into a registered
\* container under an object name already present there succeeds and replaces
\* the object: get_object then returns the new size and meta data, the
\* container's and the global object count do not grow, and bytes_used moves
\* by new size minus old size.
C6_UploadOverwrites ==
  [][(/\ ReachesAddObject(result')
      /\ result'.args.container.name \in DOMAIN containers
      /\ result'.args.object_name \in DOMAIN containers[result'.args.container.name].objects)
       => LET c == result'.args.container.name
              o == result'.args.object_name
              old == containers[c].objects[o]
              new == get_object(containers', c, o)
          IN /\ Succeeded(result')
             /\ new = Return(result'.ret.value)
             /\ new.value.size = UploadSize(result')
             /\ new.value.meta_data = UploadMetaData(result')
             /\ DOMAIN containers'[c].objects = DOMAIN containers[c].objects
             /\ get_meta_data(containers').object_count = get_meta_data(containers).object_count
             /\ get_meta_data(containers').bytes_used - get_meta_data(containers).bytes_used
                  = UploadSize(result') - old.size]_vars

\* an upload that replaced an object, in a container holding two objects
C6_Witness ==
  /\ replaced
  /\ result.op \in Uploads
  /\ Succeeded(result)
  /\ DOMAIN containers[result.args.container.name].objects = ObjectNames

\* get_object(c, o) raises
Absent(cs, c, o) == Raised(get_object(cs, c, o))

\* the call is a successful upload of object name o into container name c
UploadedInto(call, c, o) ==
  /\ call.op \in Uploads
  /\ Succeeded(call)
  /\ call.args.container.name = c
  /\ call.args.object_name = o

\* the call is a successful delete_object of object name o in container name c
DeletedFrom(call, c, o) ==
  /\ call.op = "delete_object"
  /\ Succeeded(call)
  /\ call.args.obj.container.name = c
  /\ call.args.obj.name = o

\* C7 as stated, on the first call after the delete: right after a successful
\* delete_object of o in c, once any call other than a successful upload of o
\* into c has been made, get_object(c, o) raises ObjectDoesNotExistError.
C7_AsStated ==
  [][\A c \in ContainerNames, o \in ObjectNames :
       (DeletedFrom(result, c, o) /\ ~UploadedInto(result', c, o))
         => get_object(containers', c, o) = Raise("ObjectDoesNotExistError")]_vars

\* C7 (amended): a successful delete_object of o in c removes that one entry
\* (the container stays registered, object_count drops by 1, bytes_used by
\* the object's size), and from then on get_object(c, o) raises until a
\* successful upload of o into c: ObjectDoesNotExistError while c is
\* registered, ContainerDoesNotExistError once c has been deleted.
C7_DeletedStaysAbsent ==
  [][\A c \in ContainerNames, o \in ObjectNames :
       /\ DeletedFrom(result', c, o) =>
            /\ c \in DOMAIN containers /\ o \in DOMAIN containers[c].objects
            /\ containers' = [containers EXCEPT ![c].objects = DictDel(@, o)]
            /\ get_meta_data(containers').object_count
                 = get_meta_data(containers).object_count - 1
            /\ get_meta_data(containers').bytes_used
                 = get_meta_data(containers).bytes_used - containers[c].objects[o].size
            /\ get_object(containers', c, o) = Raise("ObjectDoesNotExistError")
       /\ (Absent(containers, c, o) /\ ~UploadedInto(result', c, o)) =>
            get_object(containers', c, o) =
              IF c \in DOMAIN containers' THEN Raise("ObjectDoesNotExistError")
              ELSE Raise("ContainerDoesNotExistError")]_vars

\* a successful delete_object that left the container's other object in place
C7_Witness ==
  /\ result.op = "delete_object"
  /\ Succeeded(result)
  /\ result.args.obj.container.name \in DOMAIN containers
  /\ DOMAIN containers[result.args.obj.container.name].objects
       = ObjectNames \ {result.args.obj.name}

MetaData(cc, oc, bu) == [container_count |-> cc, object_count |-> oc, bytes_used |-> bu]

\* C8: from a fresh registry, create c1; upload o1 (50 bytes) into c1;
\* delete c1; delete o1; delete c1: get_meta_data is {1, 0, 0} after the
\* create and {1, 1, 50} after the upload, the first delete_container raises
\* ContainerIsNotEmptyError, delete_object and the second delete_container
\* succeed, and list_containers() is then empty.
C8_Scenario ==
  /\ scenario = 1 =>
       /\ get_meta_data(containers) = MetaData(1, 0, 0)
       /\ result.op = "get_meta_data" => result.ret = Return(MetaData(1, 0, 0))
  /\ scenario = 2 =>
       /\ get_meta_data(containers) = MetaData(1, 1, 50)
       /\ result.op = "get_meta_data" => result.ret = Return(MetaData(1, 1, 50))
  /\ (scenario = 3 /\ result.op = "delete_container") =>
       result.ret = Raise("ContainerIsNotEmptyError")
  /\ (scenario = 4 /\ result.op = "delete_object") => result.ret = Return(TRUE)
  /\ scenario = 5 =>
       /\ result.op = "delete_container" => result.ret = Return(TRUE)
       /\ \A order \in KeyOrders(containers) : list_containers(containers, order) = <<>>
       /\ result.op = "list_containers" => result.ret = Return(<<>>)

\* the scenario has run to its end and list_containers() was called
C8_Witness ==
  /\ scenario = 5
  /\ result.op = "list_containers"
  /\ result.ret.value = <<>>

\* C9: upload_object with a path that does not exist raises LibcloudError and
\* leaves the registry as it was, whether or not the container is registered
\* and whether or not the object name is already present.
C9_MissingFileFails ==
  [][(result'.op = "upload_object" /\ ~os_path_exists(result'.args.file_path))
       => /\ result'.ret = Raise("LibcloudError")
          /\ containers' = containers]_vars

\* the upload of a missing file into a container that is not registered
C9_Witness ==
  /\ result.op = "upload_object"
  /\ result.ret = Raise("LibcloudError")
  /\ result.args.container.name \notin DOMAIN containers
  /\ containers # EmptyItems

\* the names a get_object or delete_object call addresses
AddressedContainer(call) ==
  IF call.op = "get_object" THEN call.args.container_name ELSE call.args.obj.container.name
AddressedObject(call) ==
  IF call.op = "get_object" THEN call.args.object_name ELSE call.args.obj.name

\* C10: get_object and delete_object raise ContainerDoesNotExistError when
\* the container name is not registered, ObjectDoesNotExistError when the
\* container is registered and the object name is not in it, and leave the
\* registry as it was in both cases; otherwise get_object returns the
\* registered object and delete_object removes it.
C10_ResolutionOrder ==
  [][result'.op \in {"get_object", "delete_object"}
       => LET c == AddressedContainer(result')
              o == AddressedObject(result')
          IN IF c \notin DOMAIN containers
             THEN result'.ret = Raise("ContainerDoesNotExistError") /\ containers' = containers
             ELSE IF o \notin DOMAIN containers[c].objects
             THEN result'.ret = Raise("ObjectDoesNotExistError") /\ containers' = containers
             ELSE IF result'.op = "get_object"
             THEN result'.ret = Return(containers[c].objects[o]) /\ containers' = containers
             ELSE /\ result'.ret = Return(TRUE)
                  /\ c \in DOMAIN containers'
                  /\ o \notin DOMAIN containers'[c].objects]_vars

\* delete_object on an object name missing from a registered, non-empty container
C10_Witness ==
  /\ result.op = "delete_object"
  /\ result.ret = Raise("ObjectDoesNotExistError")
  /\ result.args.obj.container.name \in DOMAIN containers
  /\ containers[result.args.obj.container.name].objects # EmptyItems

\* the calls that take a container or a container name and get as far as
\* resolving it
ResolvesContainer(call) ==
  \/ call.op \in {"get_container", "list_container_objects", "delete_container",
                  "upload_object_via_stream", "delete_object"}
  \/ call.op = "upload_object" /\ os_path_exists(call.args.file_path)

\* the container name such a call addresses
ContainerArgument(call) ==
  IF call.op = "get_container" THEN call.args.container_name
  ELSE IF call.op = "delete_object" THEN call.args.obj.container.name
  ELSE call.args.container.name

\* C11: get_container, list_container_objects, delete_container, both uploads
\* (from a file that exists) and delete_object raise
\* ContainerDoesNotExistError when the container name is not registered
\* (never created, or deleted), and leave the registry as it was.
C11_UnregisteredContainerFails ==
  [][(ResolvesContainer(result') /\ ContainerArgument(result') \notin DOMAIN containers)
       => /\ result'.ret = Raise("ContainerDoesNotExistError")
          /\ containers' = containers]_vars

\* the second delete_container of a container, while the other one is registered
C11_Witness ==
  /\ result.op = "delete_container"
  /\ result.ret = Raise("ContainerDoesNotExistError")
  /\ lastOp[result.args.container.name] = "delete"
  /\ containers # EmptyItems

\* C12: list_container_objects on a registered container returns the objects
\* registered in that container's object map, each once, and leaves the
\* registry as it was; it does not raise.
C12_ListObjectsReturnsObjects ==
  [][(result'.op = "list_container_objects"
        /\ result'.args.container.name \in DOMAIN containers)
       => LET objects == containers[result'.args.container.name].objects
          IN /\ Succeeded(result')
             /\ containers' = containers
             /\ Cardinality(DOMAIN result'.ret.value) = Cardinality(DOMAIN objects)
             /\ {result'.ret.value[k] : k \in DOMAIN result'.ret.value}
                  = {objects[o] : o \in DOMAIN objects}]_vars

\* C13: after a successful delete_container of name n, create_container(n)
\* succeeds again; the new container has an empty object map and
\* extra['object_count'] = 0, get_object finds no object in it and
\* get_meta_data counts none for it.
C13_NameReusable ==
  [][(result'.op = "create_container" /\ lastOp[result'.args.container_name] = "delete")
       => LET n == result'.args.container_name
          IN /\ Succeeded(result')
             /\ n \in DOMAIN containers'
             /\ containers'[n].container = result'.ret.value
             /\ containers'[n].objects = EmptyItems
             /\ result'.ret.value.extra.items.object_count = 0
             /\ \A o \in ObjectNames :
                   get_object(containers', n, o) = Raise("ObjectDoesNotExistError")
             /\ get_meta_data(containers').object_count = get_meta_data(containers).object_count
             /\ get_meta_data(containers').bytes_used = get_meta_data(containers).bytes_used]_vars

\* a name created for the second time, next to a container that holds objects
C13_Witness ==
  /\ result.op = "create_container"
  /\ Succeeded(result)
  /\ result.ret.value.inc = 2
  /\ ObjectCount(containers) > 0

\* C14: a create_container or delete_container call, successful or not,
\* leaves the global object count and bytes_used as they were; an object
\* leaves the registry or changes only by a successful delete_object on it or
\* a successful upload under its name into its container.
C14_ContainerOpsKeepObjects ==
  [][/\ result'.op \in {"create_container", "delete_container"} =>
          /\ ObjectCount(containers') = ObjectCount(containers)
          /\ BytesUsed(containers') = BytesUsed(containers)
          /\ AllObjects(containers') = AllObjects(containers)
     /\ \A p \in AllObjects(containers) :
          (\/ p \notin AllObjects(containers')
           \/ containers'[p[1]].objects[p[2]] # containers[p[1]].objects[p[2]])
            => \/ DeletedFrom(result', p[1], p[2])
               \/ UploadedInto(result', p[1], p[2])]_vars

\* a container created while the registry holds two objects or more
C14_Witness ==
  /\ result.op = "create_container"
  /\ Succeeded(result)
  /\ ObjectCount(containers) >= 2

\* delete_object on each object name in `objects` of container c in turn, then
\* delete_container:
\* [ok |-> every call returned True, cs |-> the registry afterwards,
\*  calls |-> number of calls made]
RECURSIVE EmptyThenDelete(_, _, _, _)
EmptyThenDelete(cs, c, objects, calls) ==
  IF objects = {}
  THEN LET r == delete_container(cs, cs[c].container)
       IN [ok |-> r.ret = Return(TRUE), cs |-> r.cs, calls |-> calls + 1]
  ELSE LET o == CHOOSE x \in objects : TRUE
           r == delete_object(cs, cs[c].objects[o])
       IN IF r.ret # Return(TRUE) THEN [ok |-> FALSE, cs |-> r.cs, calls |-> calls + 1]
          ELSE EmptyThenDelete(r.cs, c, objects \ {o}, calls + 1)

\* the same for every container name in `names` in turn
RECURSIVE EmptyRegistry(_, _, _)
EmptyRegistry(cs, names, calls) ==
  IF names = {} THEN [ok |-> TRUE, cs |-> cs, calls |-> calls]
  ELSE LET c == CHOOSE x \in names : TRUE
           r == EmptyThenDelete(cs, c, DOMAIN cs[c].objects, calls)
       IN IF ~r.ok THEN r ELSE EmptyRegistry(r.cs, names \ {c}, r.calls)

\* C15: in every reachable state, for every registered container holding k
\* objects, k delete_object calls (one per object) followed by
\* delete_container all succeed and remove the container, and doing so for
\* every container brings the registry back to empty, {0, 0, 0}, in
\* (number of objects + number of containers) calls.
C15_AlwaysRecoverable ==
  /\ \A c \in DOMAIN containers :
       LET r == EmptyThenDelete(containers, c, DOMAIN containers[c].objects, 0)
       IN /\ r.ok
          /\ r.calls = Cardinality(DOMAIN containers[c].objects) + 1
          /\ r.cs = DictDel(containers, c)
  /\ LET r == EmptyRegistry(containers, DOMAIN containers, 0)
     IN /\ r.ok
        /\ r.calls = ObjectCount(containers) + Cardinality(DOMAIN containers)
        /\ r.cs = EmptyItems
        /\ get_meta_data(r.cs) = MetaData(0, 0, 0)

\* a refused delete_container while every container holds every object name
C15_Witness ==
  /\ result.ret = Raise("ContainerIsNotEmptyError")
  /\ ObjectCount(containers) = Cardinality(ContainerNames) * Cardinality(ObjectNames)

\* C16: an upload or delete_object addressed to one container leaves every
\* other container and its objects as they were (so an object name present in
\* two containers keeps its own object in each).
C16_ContainersIsolated ==
  [][result'.op \in Uploads \cup {"delete_object"}
       => \A b \in DOMAIN containers \ {ContainerArgument(result')} :
            /\ b \in DOMAIN containers'
            /\ containers'[b] = containers[b]]_vars

\* an upload that replaced an object whose name the other container holds
\* too, with a different size
C16_Witness ==
  /\ replaced
  /\ result.op \in Uploads
  /\ \E b \in DOMAIN containers :
       /\ b # result.args.container.name
       /\ result.args.object_name \in DOMAIN containers[b].objects
       /\ containers[b].objects[result.args.object_name].size # result.ret.value.size

\* C17: delete_container, the uploads and delete_object use only the names in
\* the Container or Object value they are given, whichever instance it is:
\* they act on the entry registered under that name (delete_container of an
\* empty registered container removes it, an upload stores the object under
\* the registered Container, delete_object removes the registered object and
\* bytes_used drops by that object's size, not by the size the caller's
\* Object carries).
C17_ResolvedByName ==
  [][/\ (/\ result'.op = "delete_container"
          /\ result'.args.container.name \in DOMAIN containers
          /\ containers[result'.args.container.name].objects = EmptyItems)
          => /\ result'.ret = Return(TRUE)
             /\ result'.args.container.name \notin DOMAIN containers'
     /\ (ReachesAddObject(result') /\ result'.args.container.name \in DOMAIN containers)
          => LET n == result'.args.container.name
             IN /\ Succeeded(result')
                /\ containers'[n].container = containers[n].container
                /\ result'.ret.value.container = containers[n].container
                /\ containers'[n].objects[result'.args.object_name] = result'.ret.value
     /\ (/\ result'.op = "delete_object"
          /\ result'.args.obj.container.name \in DOMAIN containers
          /\ result'.args.obj.name
               \in DOMAIN containers[result'.args.obj.container.name].objects)
          => LET n == result'.args.obj.container.name
                 o == result'.args.obj.name
             IN /\ result'.ret = Return(TRUE)
                /\ o \notin DOMAIN containers'[n].objects
                /\ BytesUsed(containers') = BytesUsed(containers) - containers[n].objects[o].size]_vars

\* delete_container given the first Container built under a name removed the
\* second one
C17_Witness ==
  /\ result.op = "delete_container"
  /\ Succeeded(result)
  /\ result.args.container.inc = 1
  /\ gen[result.args.container.name] = 2

\* C18: every registered object is stored under its own name, its container
\* is the Container instance registered under the name of the container that
\* holds it, and no object is held by two containers.
C18_ObjectsWellFormed ==
  /\ \A p \in AllObjects(containers) :
       LET obj == containers[p[1]].objects[p[2]]
       IN /\ obj.name = p[2]
          /\ obj.container = containers[p[1]].container
          /\ obj.container.name = p[1]
          /\ obj.container.name \in DOMAIN containers
  /\ \A p, q \in AllObjects(containers) :
       p[1] # q[1] => containers[p[1]].objects[p[2]] # containers[q[1]].objects[q[2]]

\* an upload given a Container that is not the registered instance, into the
\* second container built under the name
C18_Witness ==
  /\ result.op \in Uploads
  /\ Succeeded(result)
  /\ result.args.container.name \in DOMAIN containers
  /\ result.args.container # containers[result.args.container.name].container
  /\ containers[result.args.container.name].container.inc = 2
  /\ result.args.object_name \in DOMAIN containers[result.args.container.name].objects

C19_ObjectCountIsZero ==
  \A n \in DOMAIN containers :
    containers[n].container.extra = PyDict([object_count |-> 0])

\* C19: extra['object_count'] of a registered container is 0 from
\* create_container on, whatever is uploaded into or deleted from it, and no
\* call changes the Container registered under a name while it stays
\* registered.
C19_ExtraNeverUpdated ==
  /\ []C19_ObjectCountIsZero
  /\ [][\A n \in DOMAIN containers :
          (n \in DOMAIN containers' /\ result'.op # "create_container")
            => containers'[n].container = containers[n].container]_vars

\* a container that holds two objects after a delete_object and a new upload,
\* with object_count still 0
C19_Witness ==
  /\ result.op = "upload_object_via_stream"
  /\ Succeeded(result)
  /\ ~replaced
  /\ DOMAIN containers[result.args.container.name].objects = ObjectNames
  /\ containers[result.args.container.name].container.extra.items.object_count = 0

\* threads whose call is op and has run / has run and returned normally
Ran(op) == {t \in Threads : pending[t] = op /\ outcome[t] # NoOutcome}
RanOk(op) == {t \in Threads : pending[t] = op /\ outcome[t].outcome = "ok"}

C20_ExactlyOneCreateSucceeds ==
  /\ Cardinality(RanOk("create_container")) <= 1
  /\ Ran("create_container") # {} => Cardinality(RanOk("create_container")) = 1
  /\ \A t \in Ran("create_container") \ RanOk("create_container") :
       outcome[t] = Raise("ContainerAlreadyExistsError")

\* the step is the call of the thread that holds the lock
Called == \E t \in Threads : pc[t] = "holding" /\ pc'[t] = "ran"

C20_DeleteOnlyEmpty ==
  (Called /\ result'.op = "delete_container" /\ Succeeded(result'))
    => /\ result'.args.container.name \in DOMAIN containers
       /\ containers[result'.args.container.name].objects = EmptyItems

C20_MetaDataConsistent ==
  /\ get_meta_data(containers)
       = MetaData(Cardinality(DOMAIN containers), ObjectCount(containers),
                  BytesUsed(containers))
  /\ \A t \in RanOk("get_meta_data") :
       lock = t => outcome[t] = Return(get_meta_data(containers))
  /\ \A t \in Threads : pc[t] \in {"holding", "ran"} <=> lock = t

====
